---- MODULE Spec2Model ----
(***************************************************************************)
(* Model of resume_matcher_app.py: one Streamlit script run per submission *)
(* (PDF text extraction, one chat-completion request, regex scraping of    *)
(* the reply into three lists, derived score and skill table, widgets).    *)
(*                                                                         *)
(* Text is a sequence of tokens.  A token is one character ("\n", " ",     *)
(* "\t", "-", ":", "x", "y"), the bullet character U+2022 written          *)
(* "<bullet>", or one of the literal phrases the code's patterns look for, *)
(* kept whole: "Matched Skills", "Missing Skills", "Suggestions",          *)
(* "to improve the resume" and "<cross> Error" (U+274C, a space, "Error"). *)
(* A phrase token neither starts nor ends with a character that \s, ":" or *)
(* strip(" -<bullet>\t") touch, so the character-level operations act on   *)
(* token boundaries only.                                                  *)
(***************************************************************************)
EXTENDS Integers, Sequences, FiniteSets, TLC

VARIABLES
    pc,              \* position of the script run
    uploaded_file,   \* resume_file (st.file_uploader)
    job_desc,        \* job_desc (st.text_area)
    resume_text,     \* result of extract_text_from_pdf
    response,        \* outcome of requests.post inside call_gpt
    posts,           \* number of HTTP requests issued in this run
    result,          \* return value of compare_resume_and_jd
    matched_skills,
    missing_skills,
    suggestions,
    score,           \* in hundredths of a percent point (66.67 is 6667)
    skill_df,        \* rows of the skill table
    errors,          \* st.error messages shown, in order
    widgets          \* result widgets rendered, in order

vars == << pc, uploaded_file, job_desc, resume_text, response, posts, result,
           matched_skills, missing_skills, suggestions, score, skill_df,
           errors, widgets >>

----------------------------------------------------------------------------
(* Bounds *)

MaxReplyLen == 2     \* tokens of a reply text in Spec
MaxPages == 1        \* pages of an uploaded PDF in Spec
MaxParseLen == 4     \* tokens of a reply text in SpecReply
MaxBullets == 2      \* bullet lines per section of a generated reply

----------------------------------------------------------------------------
(* Characters and strings *)

\* Python's str.strip() with no argument and the pattern class \s
IsSpace(c) == c \in {" ", "\t", "\n"}

\* the pattern class [:\s]
IsColonOrSpace(c) == c = ":" \/ IsSpace(c)

\* the characters of strip(" -<bullet>\t")
IsBulletChar(c) == c \in {" ", "-", "<bullet>", "\t"}

\* re.IGNORECASE on the phrase tokens
Lower(c) ==
    CASE c = "MATCHED SKILLS" -> "matched skills"
      [] c = "Matched Skills" -> "matched skills"
      [] c = "Missing Skills" -> "missing skills"
      [] c = "Suggestions"    -> "suggestions"
      [] c = "to improve the resume" -> "to improve the resume"
      [] OTHER -> c

Min(S) == CHOOSE x \in S : \A y \in S : x <= y

\* all token sequences over A of length at most n
SeqsUpTo(A, n) == UNION { [1..k -> A] : k \in 0..n }

RECURSIVE Concat(_)
Concat(ss) == IF ss = << >> THEN << >> ELSE Head(ss) \o Concat(Tail(ss))

\* sep.join(parts)
RECURSIVE Join(_, _)
Join(sep, parts) ==
    IF parts = << >> THEN << >>
    ELSE IF Len(parts) = 1 THEN parts[1]
    ELSE parts[1] \o sep \o Join(sep, Tail(parts))

\* s.strip(): truthy iff some character is not whitespace
StripIsTruthy(s) == \E i \in 1..Len(s) : ~IsSpace(s[i])

\* s.strip(" -<bullet>\t")
StripBullets(s) ==
    LET keep == { i \in 1..Len(s) : ~IsBulletChar(s[i]) }
    IN  IF keep = {} THEN << >>
        ELSE SubSeq(s, Min(keep), CHOOSE i \in keep : \A j \in keep : j <= i)

\* str.splitlines() (the only line boundary of the alphabet is "\n")
RECURSIVE SplitLines(_)
SplitLines(s) ==
    IF s = << >> THEN << >>
    ELSE LET nls == { i \in 1..Len(s) : s[i] = "\n" }
         IN  IF nls = {} THEN << s >>
             ELSE LET i == Min(nls)
                  IN  << SubSeq(s, 1, i - 1) >> \o SplitLines(SubSeq(s, i + 1, Len(s)))

----------------------------------------------------------------------------
(* The section patterns of extract_skills_from_gpt_output and               *)
(* extract_suggestions:  <header>[:\s]*([\s\S]*?)(?:\n\s*\n|$)              *)
(* with re.IGNORECASE and without re.MULTILINE.                             *)

MatchedPattern == "matched skills"
MissingPattern == "missing skills"
SuggestionsPattern == "suggestions"

\* Position just after the literal header matched at position i, 0 when the
\* header does not match there.  "Suggestions" takes the optional group
\* (?: to improve the resume)? greedily.
HeaderEnd(text, i, pattern) ==
    IF i > Len(text) \/ Lower(text[i]) # pattern THEN 0
    ELSE IF /\ pattern = SuggestionsPattern
            /\ i + 2 <= Len(text)
            /\ text[i + 1] = " "
            /\ Lower(text[i + 2]) = "to improve the resume"
         THEN i + 3
         ELSE i + 1

\* re.search scans left to right: the leftmost position where the header is
HeaderStart(text, pattern) ==
    LET at == { i \in 1..Len(text) : HeaderEnd(text, i, pattern) # 0 }
    IN  IF at = {} THEN 0 ELSE Min(at)

\* [:\s]* is greedy: the first position at or after j that is neither
\* a colon nor whitespace (Len + 1 when the run reaches the end)
SkipColonSpace(text, j) ==
    Min({ p \in j..(Len(text) + 1) :
            p = Len(text) + 1 \/ ~IsColonOrSpace(text[p]) })

\* (?:\n\s*\n|$) matches at position q: a newline, whitespace, a newline;
\* or the end of the text, or just before a final newline
TerminatorAt(text, q) ==
    \/ q = Len(text) + 1
    \/ q = Len(text) /\ text[q] = "\n"
    \/ /\ q <= Len(text)
       /\ text[q] = "\n"
       /\ \E r \in (q + 1)..Len(text) :
            /\ text[r] = "\n"
            /\ \A k \in (q + 1)..(r - 1) : IsSpace(text[k])

\* m.start(1): where the capture begins, after the header and [:\s]*
GroupStart(text, pattern) ==
    SkipColonSpace(text, HeaderEnd(text, HeaderStart(text, pattern), pattern))

\* m.end(1), as the position after the capture: [\s\S]*? is lazy, so the
\* capture ends at the first position where the terminator matches.  The end
\* of the text always terminates, so the greedy [:\s]* never gives anything
\* back.
GroupEnd(text, pattern) ==
    Min({ e \in GroupStart(text, pattern)..(Len(text) + 1) : TerminatorAt(text, e) })

\* m.group(1)
Group1(text, pattern) ==
    SubSeq(text, GroupStart(text, pattern), GroupEnd(text, pattern) - 1)

\* [s.strip(" -<bullet>\t") for s in block.splitlines() if s.strip()]
CleanLines(block) ==
    LET ls == SelectSeq(SplitLines(block), StripIsTruthy)
    IN  [ k \in 1..Len(ls) |-> StripBullets(ls[k]) ]

\* one section of the reply, [] when re.search finds no header
Section(text, pattern) ==
    IF HeaderStart(text, pattern) = 0 THEN << >>
    ELSE CleanLines(Group1(text, pattern))

\* extract_skills_from_gpt_output returns (matched, missing)
extract_skills_from_gpt_output(gpt_text) ==
    << Section(gpt_text, MatchedPattern), Section(gpt_text, MissingPattern) >>

extract_suggestions(gpt_text) == Section(gpt_text, SuggestionsPattern)

----------------------------------------------------------------------------
(* Values *)

\* Python's None and a str, as compare_resume_and_jd returns them
NoneValue == [kind |-> "None", text |-> << >>]
Str(t) == [kind |-> "str", text |-> t]

\* a JSON list or a JSON number, which line 62 returns as it is: the list's
\* items, or the number's digits
ListValue(items) == [kind |-> "list", text |-> items]
IntValue(digits) == [kind |-> "int", text |-> digits]

\* bool(value): None, "", [] and 0 are falsy
Truthy(v) ==
    CASE v.kind = "None" -> FALSE
      [] v.kind = "int" -> v.text # << "0" >>
      [] OTHER -> v.text # << >>

NoFile == [kind |-> "none", pages |-> << >>]
CorruptFile == [kind |-> "corrupt", pages |-> << >>]
Pdf(pages) == [kind |-> "pdf", pages |-> pages]

\* what page.get_text() may give for one page
PageTexts == { << >>, << "x" >>, << "<cross> Error", " ", "x" >> }

UploadedFiles ==
    {NoFile, CorruptFile}
        \cup { Pdf(ps) : ps \in UNION { [1..k -> PageTexts] : k \in 1..MaxPages } }

JobDescriptions == { << >>, << "x" >> }

ReplyAlphabet ==
    { "Matched Skills", "Missing Skills", "Suggestions", "to improve the resume",
      ":", "\n", " ", "\t", "-", "<bullet>", "x" }

\* outcomes of requests.post(...) and of reading its body
NoResponse == [kind |-> "none", status |-> 0, content |-> << >>]
HttpError(st) == [kind |-> "http_error", status |-> st, content |-> << >>]
Timeout == [kind |-> "timeout", status |-> 0, content |-> << >>]
BadJson == [kind |-> "bad_json", status |-> 200, content |-> << >>]
BadShape == [kind |-> "bad_shape", status |-> 200, content |-> << >>]
NullContent == [kind |-> "null_content", status |-> 200, content |-> << >>]
Ok(text) == [kind |-> "ok", status |-> 200, content |-> text]
\* a 200 body whose first choice's content is a JSON list or a JSON number
ListContent(items) == [kind |-> "list_content", status |-> 200, content |-> items]
IntContent(digits) == [kind |-> "int_content", status |-> 200, content |-> digits]

FailedResponses ==
    { HttpError(401), HttpError(500), Timeout, BadJson, BadShape, NullContent,
      ListContent(<< "x" >>), ListContent(<< >>),
      IntContent(<< "5" >>), IntContent(<< "0" >>) }

Responses(n) == FailedResponses \cup { Ok(t) : t \in SeqsUpTo(ReplyAlphabet, n) }

----------------------------------------------------------------------------
(* The functions of the script *)

\* extract_text_from_pdf: the pages' text joined by "\n", or the message
\* built in the except branch
extract_text_from_pdf(f) ==
    IF f.kind = "pdf" THEN Join(<< "\n" >>, f.pages)
    ELSE << "<cross> Error", " ", "reading PDF:", " ", "<exception>" >>

\* the prefix test looking for the word without the cross mark
StartsWithPlainError(text) == Len(text) >= 1 /\ text[1] = "Error"

\* resume_text.startswith("<cross> Error")
StartsWithError(text) == Len(text) >= 1 /\ text[1] = "<cross> Error"

\* call_gpt, return value: data["choices"][0]["message"]["content"], whatever
\* its JSON type, when nothing raised; None after either except branch
call_gpt(resp) ==
    CASE resp.kind = "ok" -> Str(resp.content)
      [] resp.kind = "null_content" -> NoneValue
      [] resp.kind = "list_content" -> ListValue(resp.content)
      [] resp.kind = "int_content" -> IntValue(resp.content)
      [] OTHER -> NoneValue

\* compare_resume_and_jd: the prompt built from the two texts goes to call_gpt,
\* whose outcome is the outcome of the request
compare_resume_and_jd(text, jd_text, resp) == call_gpt(resp)

\* call_gpt, the st.error calls of its except branches
call_gpt_errors(resp) ==
    CASE resp.kind = "http_error" -> << << "OpenRouter error" >> >>
      [] resp.kind \in {"timeout", "bad_json", "bad_shape"} -> << << "Request failed" >> >>
      [] OTHER -> << >>

\* the score cut to two decimals instead of rounded
ScoreOfTruncated(m, n) == (10000 * m) \div (IF m + n >= 1 THEN m + n ELSE 1)

RECURSIVE BitLength(_)
BitLength(i) == IF i = 0 THEN 0 ELSE 1 + BitLength(i \div 2)

\* Binary long division of r / d (r < d), producing the `need` significant
\* bits a double still has room for, then the sign of the rounding to nearest
\* (ties to even): 1 when the double lies above the quotient, -1 when below,
\* 0 when the quotient is exact.
RECURSIVE RoundingSign(_, _, _, _, _)
RoundingSign(r, d, need, started, last) ==
    IF r = 0 THEN 0
    ELSE IF need = 0
         THEN IF 2 * r > d THEN 1
              ELSE IF 2 * r < d THEN -1
              ELSE IF last = 1 THEN 1 ELSE -1
    ELSE LET b == (2 * r) \div d
             on == started \/ b = 1
         IN  RoundingSign((2 * r) % d, d, IF on THEN need - 1 ELSE need, on, b)

\* sign of (the double nearest to num / d) - num / d, for the float division
\* of line 157; a double has 53 significant bits
DoubleError(num, d) ==
    LET i == num \div d
    IN  IF i >= 1 THEN RoundingSign(num % d, d, 53 - BitLength(i), TRUE, i % 2)
        ELSE RoundingSign(num % d, d, 53, FALSE, 0)

\* round(100 * m / max(1, m + n), 2) in hundredths.  round() rounds the double
\* that the division gave: off a decimal tie it agrees with the exact ratio
\* (the double's error is far below the distance to a tie); on a decimal tie
\* (2q + 1) / 200 it goes the way the double lies, and half to even when the
\* double is the tie itself.
ScoreOf(m, n) ==
    LET d == IF m + n >= 1 THEN m + n ELSE 1
        q == (10000 * m) \div d
        r == (10000 * m) % d
    IN  IF 2 * r < d THEN q
        ELSE IF 2 * r > d THEN q + 1
        ELSE LET sign == DoubleError(2 * q + 1, 200)
             IN  IF sign > 0 THEN q + 1
                 ELSE IF sign < 0 THEN q
                 ELSE IF q % 2 = 0 THEN q ELSE q + 1

\* the table with the two lists concatenated the other way round
SkillTableMissingFirst(matched, missing) ==
    LET skill == missing \o matched
        status == [ i \in 1..Len(missing) |-> "Missing" ]
                    \o [ i \in 1..Len(matched) |-> "Matched" ]
    IN  [ i \in 1..Len(skill) |-> [Skill |-> skill[i], Status |-> status[i]] ]

\* pd.DataFrame({"Skill": matched + missing, "Status": [...] + [...]})
SkillTable(matched, missing) ==
    LET skill == matched \o missing
        status == [ i \in 1..Len(matched) |-> "Matched" ]
                    \o [ i \in 1..Len(missing) |-> "Missing" ]
    IN  [ i \in 1..Len(skill) |-> [Skill |-> skill[i], Status |-> status[i]] ]

ResultWidgets ==
    << "bar_chart", "matched_expander", "missing_expander", "summary",
       "gauge", "table", "suggestions_expander" >>

----------------------------------------------------------------------------
(* The script run *)

Init ==
    /\ pc = "idle"
    /\ uploaded_file = NoFile
    /\ job_desc = << >>
    /\ resume_text = << >>
    /\ response = NoResponse
    /\ posts = 0
    /\ result = NoneValue
    /\ matched_skills = << >>
    /\ missing_skills = << >>
    /\ suggestions = << >>
    /\ score = 0
    /\ skill_df = << >>
    /\ errors = << >>
    /\ widgets = << >>

\* lines 113-118: the inputs, and the extraction when both are given
Submit(f, jd) ==
    /\ pc = "idle"
    /\ uploaded_file' = f
    /\ job_desc' = jd
    /\ IF f.kind # "none" /\ jd # << >>
       THEN /\ resume_text' = extract_text_from_pdf(f)
            /\ pc' = "extracted"
       ELSE /\ resume_text' = resume_text
            /\ pc' = "done"
    /\ UNCHANGED << response, posts, result, matched_skills, missing_skills,
                    suggestions, score, skill_df, errors, widgets >>

\* lines 120-121
ShowExtractionError ==
    /\ pc = "extracted"
    /\ StartsWithError(resume_text)
    /\ errors' = Append(errors, resume_text)
    /\ pc' = "done"
    /\ UNCHANGED << uploaded_file, job_desc, resume_text, response, posts, result,
                    matched_skills, missing_skills, suggestions, score, skill_df,
                    widgets >>

\* lines 122-124: compare_resume_and_jd, one request through call_gpt
Analyze(resp) ==
    /\ pc = "extracted"
    /\ ~StartsWithError(resume_text)
    /\ response' = resp
    /\ posts' = posts + 1
    /\ result' = compare_resume_and_jd(resume_text, job_desc, resp)
    /\ errors' = errors \o call_gpt_errors(resp)
    /\ pc' = "analyzed"
    /\ UNCHANGED << uploaded_file, job_desc, resume_text, matched_skills,
                    missing_skills, suggestions, score, skill_df, widgets >>

\* lines 126-127: st.stop()
StopOnEmpty ==
    /\ pc = "analyzed"
    /\ ~Truthy(result)
    /\ pc' = "stopped"
    /\ UNCHANGED << uploaded_file, job_desc, resume_text, response, posts, result,
                    matched_skills, missing_skills, suggestions, score, skill_df,
                    errors, widgets >>

\* lines 129-133 on a truthy result that is no str: st.markdown shows it,
\* then re.search raises TypeError, which nothing catches
CrashOnParse ==
    /\ pc = "analyzed"
    /\ Truthy(result)
    /\ result.kind # "str"
    /\ widgets' = Append(widgets, "analysis")
    /\ pc' = "crashed"
    /\ UNCHANGED << uploaded_file, job_desc, resume_text, response, posts, result,
                    matched_skills, missing_skills, suggestions, score, skill_df,
                    errors >>

\* lines 129-133
ParseResult ==
    /\ pc = "analyzed"
    /\ Truthy(result)
    /\ result.kind = "str"
    /\ widgets' = Append(widgets, "analysis")
    /\ matched_skills' = extract_skills_from_gpt_output(result.text)[1]
    /\ missing_skills' = extract_skills_from_gpt_output(result.text)[2]
    /\ suggestions' = extract_suggestions(result.text)
    /\ pc' = "parsed"
    /\ UNCHANGED << uploaded_file, job_desc, resume_text, response, posts, result,
                    score, skill_df, errors >>

\* lines 135-181
Render ==
    /\ pc = "parsed"
    /\ score' = ScoreOf(Len(matched_skills), Len(missing_skills))
    /\ skill_df' = SkillTable(matched_skills, missing_skills)
    /\ widgets' = widgets \o ResultWidgets
    /\ pc' = "done"
    /\ UNCHANGED << uploaded_file, job_desc, resume_text, response, posts, result,
                    matched_skills, missing_skills, suggestions, errors >>

\* the next interaction runs the script again from the top
Rerun ==
    /\ pc \in {"done", "stopped", "crashed"}
    /\ pc' = "idle"
    /\ uploaded_file' = NoFile
    /\ job_desc' = << >>
    /\ resume_text' = << >>
    /\ response' = NoResponse
    /\ posts' = 0
    /\ result' = NoneValue
    /\ matched_skills' = << >>
    /\ missing_skills' = << >>
    /\ suggestions' = << >>
    /\ score' = 0
    /\ skill_df' = << >>
    /\ errors' = << >>
    /\ widgets' = << >>

Next ==
    \/ \E f \in UploadedFiles, jd \in JobDescriptions : Submit(f, jd)
    \/ ShowExtractionError
    \/ \E resp \in Responses(MaxReplyLen) : Analyze(resp)
    \/ StopOnEmpty
    \/ CrashOnParse
    \/ ParseResult
    \/ Render
    \/ Rerun

Spec == Init /\ [][Next]_vars

----------------------------------------------------------------------------
(* Replies with the layout the prompt asks for: a header line, bullet lines, *)
(* a blank line.                                                             *)

BulletLines ==
    { [marker |-> << "-", " " >>, content |-> << "x" >>],
      [marker |-> << "<bullet>", " " >>, content |-> << "y" >>],
      [marker |-> << "\t" >>, content |-> << "x", " ", "y" >>] }

LineText(b) == b.marker \o b.content

HeaderTexts ==
    { << "Matched Skills" >>, << "MATCHED SKILLS" >>, << "Missing Skills" >>,
      << "Suggestions" >>, << "Suggestions", " ", "to improve the resume" >> }

\* header, colon, the bullet lines, a blank line
SectionText(header, bullets) ==
    header \o << ":", "\n" >>
        \o Concat([ i \in 1..Len(bullets) |-> LineText(bullets[i]) \o << "\n" >> ])
        \o << "\n" >>

Tails == { << >>, << "x" >>, << "Missing Skills", ":", "\n", "-", " ", "x", "\n" >> }

WellFormedReplies ==
    { SectionText(h, bs) \o tl :
        h \in HeaderTexts, bs \in SeqsUpTo(BulletLines, MaxBullets), tl \in Tails }

\* a section is left out when it has no bullet
OptionalSection(header, bullets) ==
    IF bullets = << >> THEN << >> ELSE SectionText(header, bullets)

SummaryReplies ==
    { << "x", "\n", "\n" >> \o OptionalSection(<< "Matched Skills" >>, ms)
                            \o OptionalSection(<< "Missing Skills" >>, xs) :
        ms \in SeqsUpTo(BulletLines, MaxBullets),
        xs \in SeqsUpTo(BulletLines, MaxBullets) }

\* the run just after compare_resume_and_jd returned the reply text
InitAnalyzed(text) ==
    /\ pc = "analyzed"
    /\ uploaded_file = Pdf(<< << "x" >> >>)
    /\ job_desc = << "x" >>
    /\ resume_text = << "x" >>
    /\ response = Ok(text)
    /\ posts = 1
    /\ result = Str(text)
    /\ matched_skills = << >>
    /\ missing_skills = << >>
    /\ suggestions = << >>
    /\ score = 0
    /\ skill_df = << >>
    /\ errors = << >>
    /\ widgets = << >>

\* the parsers on every short reply and on the laid-out replies
InitReply ==
    \E t \in SeqsUpTo(ReplyAlphabet, MaxParseLen) \cup WellFormedReplies :
        InitAnalyzed(t)

NextReply == StopOnEmpty \/ ParseResult \/ Render

SpecReply == InitReply /\ [][NextReply]_vars

\* the score and the table on the lists parsed from two-section replies
InitSummary == \E t \in SummaryReplies : InitAnalyzed(t)

NextSummary == ParseResult \/ Render

SpecSummary == InitSummary /\ [][NextSummary]_vars

----------------------------------------------------------------------------
(* Properties *)

\* extract_text_from_pdf was called and its except branch ran
ExtractionFailed ==
    pc # "idle" /\ uploaded_file.kind = "corrupt" /\ job_desc # << >>

\* extract_text_from_pdf was called and returned the pages' text
ExtractionSucceeded ==
    pc # "idle" /\ uploaded_file.kind = "pdf" /\ job_desc # << >>

\* C1: in a submission whose PDF extraction failed, the run only ever shows
\* the extraction error: no HTTP request is issued, compare_resume_and_jd is
\* never reached and nothing is rendered, and once the run is over the
\* message has been shown.
C1_NoRemoteCallAfterExtractionFailure ==
    ExtractionFailed =>
        /\ posts = 0
        /\ response = NoResponse
        /\ pc \in {"extracted", "done"}
        /\ widgets = << >>
        /\ pc = "done" => errors = << resume_text >>

C1_Witness ==
    /\ ExtractionFailed
    /\ pc = "done"
    /\ errors = << << "<cross> Error", " ", "reading PDF:", " ", "<exception>" >> >>

\* call_gpt was called and did not return the text of a first choice
CompletionFailed ==
    /\ pc \in {"analyzed", "stopped", "crashed", "parsed", "done"}
    /\ posts >= 1
    /\ response.kind # "ok"

\* C2: every completion failure is terminal for the submission: an error
\* message is shown, exactly one request was made, no parser ran, no widget
\* is rendered and the run does not crash.
C2_CompletionFailureIsReported ==
    CompletionFailed =>
        /\ errors # << >>
        /\ posts = 1
        /\ pc \in {"analyzed", "stopped"}
        /\ widgets = << >>
        /\ matched_skills = << >> /\ missing_skills = << >> /\ suggestions = << >>

\* positions of the reply, inside the capture of a section, that hold
\* something other than whitespace: the lines they are on yield the items
ItemPositions(text, pattern) ==
    IF HeaderStart(text, pattern) = 0 THEN {}
    ELSE { k \in GroupStart(text, pattern)..(GroupEnd(text, pattern) - 1) :
             ~IsSpace(text[k]) }

HasPhrase(item, pattern) == \E k \in 1..Len(item) : Lower(item[k]) = pattern

\* C3: the matched and the missing list are mutually exclusive: no part of
\* the reply ends up in both lists, and the "Missing Skills" header is never
\* inside an item of matched.
C3_MatchedAndMissingAreExclusive ==
    pc \in {"parsed", "done"} =>
        /\ ItemPositions(result.text, MatchedPattern)
              \cap ItemPositions(result.text, MissingPattern) = {}
        /\ \A i \in 1..Len(matched_skills) :
              ~HasPhrase(matched_skills[i], MissingPattern)

Trimmed(item) ==
    /\ item # << >>
    /\ ~IsSpace(item[1]) /\ ~IsBulletChar(item[1])
    /\ ~IsSpace(item[Len(item)]) /\ ~IsBulletChar(item[Len(item)])

\* C4: every item of the three lists is a non-empty string with no leading
\* or trailing whitespace or bullet marker.
C4_ItemsAreTrimmedAndNonEmpty ==
    pc \in {"parsed", "done"} =>
        /\ \A i \in 1..Len(matched_skills) : Trimmed(matched_skills[i])
        /\ \A i \in 1..Len(missing_skills) : Trimmed(missing_skills[i])
        /\ \A i \in 1..Len(suggestions) : Trimmed(suggestions[i])

\* the list the script filled for a header
ParsedList(header) ==
    CASE Lower(header[1]) = MatchedPattern -> matched_skills
      [] Lower(header[1]) = MissingPattern -> missing_skills
      [] OTHER -> suggestions

\* C5: a reply that starts with a header line followed by N >= 0 bullet
\* lines and a blank line gives, for that section, exactly the N bullet
\* lines without their markers, in order.
C5_SectionWithNBulletsGivesNItems ==
    \A h \in HeaderTexts, bs \in SeqsUpTo(BulletLines, MaxBullets), tl \in Tails :
        (pc \in {"parsed", "done"} /\ result.text = SectionText(h, bs) \o tl)
            => ParsedList(h) = [ i \in 1..Len(bs) |-> bs[i].content ]

HeaderAbsent(text, pattern) == \A k \in 1..Len(text) : Lower(text[k]) # pattern

\* C6: a reply that lacks a target header gives an empty list for that
\* section, is never reported as an error and never halts the run: the run
\* does not stop and ends with every widget rendered.
C6_AbsentSectionNeverHalts ==
    \A pattern \in {MatchedPattern, MissingPattern, SuggestionsPattern} :
        ( /\ pc \in {"analyzed", "stopped", "parsed", "done"}
          /\ response.kind = "ok"
          /\ HeaderAbsent(response.content, pattern) )
        => /\ pc # "stopped"
           /\ errors = << >>
           /\ pc \in {"parsed", "done"} =>
                (CASE pattern = MatchedPattern -> matched_skills
                   [] pattern = MissingPattern -> missing_skills
                   [] OTHER -> suggestions) = << >>
           /\ pc = "done" => widgets = << "analysis" >> \o ResultWidgets

\* C7: the displayed score is 100 * |matched| / max(1, |matched| + |missing|)
\* rounded to the nearest hundredth: 0.0 for two empty lists, 100.0 when only
\* missing is empty, 33.33 for 1 matched and 2 missing, always in [0, 100].
C7_ScoreIsRoundedRatio ==
    pc = "done" =>
        LET m == Len(matched_skills)
            n == Len(missing_skills)
            d == IF m + n = 0 THEN 1 ELSE m + n
            off == score * d - 10000 * m
        IN  /\ score \in 0..10000
            /\ 2 * off <= d /\ -2 * off <= d
            /\ (m = 0 /\ n = 0) => score = 0
            /\ (m > 0 /\ n = 0) => score = 10000
            /\ (m = 1 /\ n = 2) => score = 3333

C7_Witness ==
    /\ pc = "done"
    /\ Len(matched_skills) = 1
    /\ Len(missing_skills) = 2
    /\ score = 3333

\* C8: the skill table has |matched| + |missing| rows: the matched items in
\* order, each "Matched", then the missing items in order, each "Missing".
C8_TableIsMatchedThenMissing ==
    pc = "done" =>
        LET m == Len(matched_skills)
            n == Len(missing_skills)
        IN  /\ Len(skill_df) = m + n
            /\ \A i \in 1..m :
                 skill_df[i] = [Skill |-> matched_skills[i], Status |-> "Matched"]
            /\ \A j \in 1..n :
                 skill_df[m + j] = [Skill |-> missing_skills[j], Status |-> "Missing"]

C8_Witness ==
    /\ pc = "done"
    /\ Len(matched_skills) = 2
    /\ Len(missing_skills) = 1
    /\ Len(skill_df) = 3
    /\ skill_df[3].Status = "Missing"

\* C9: the failure branch is taken if and only if extract_text_from_pdf
\* caught an exception: every extracted text goes on to the completion call.
C9_FailureBranchIffExtractionFailed ==
    /\ pc = "extracted" => (StartsWithError(resume_text) <=> ExtractionFailed)
    /\ (ExtractionSucceeded /\ pc = "done") => posts = 1 /\ errors = << >>

\* C10: a reply that carries text, the empty text included, is never treated
\* as a failure: the run does not stop on it and shows no error, and it ends
\* with the analysis and every result widget rendered.
C10_SuccessfulReplyIsRendered ==
    (response.kind = "ok" /\ pc \in {"analyzed", "stopped", "parsed", "done"}) =>
        /\ pc # "stopped"
        /\ errors = << >>
        /\ pc = "done" => widgets = << "analysis" >> \o ResultWidgets

====
